---------------------------- MODULE Spec2Model ----------------------------
(***************************************************************************)
(* Contract builder: template / field / document rendering pipeline.       *)
(*                                                                         *)
(* Text is a sequence of symbols.  A symbol is one character ("{", "}",    *)
(* ".", "$", ...) or an atomic run of characters none of which is a brace, *)
(* a dollar sign or a regular-expression metacharacter ("employer",        *)
(* "<p>", ...).  A JSON object is the sequence of its entries <<key,       *)
(* value>> in property order, which is the order Object.entries yields.    *)
(***************************************************************************)
EXTENDS Integers, Sequences, FiniteSets, TLC

VARIABLES
    contractTemplates,  \* MemStorage.contractTemplates : id -> template
    contracts,          \* MemStorage.contracts : id -> contract
    currentContractId,  \* MemStorage.currentContractId
    clock,              \* the value new Date() returns next
    response,           \* the last request served and the answer to it
    tplText,            \* renderer input: template.template
    data,               \* renderer input: contract.data
    previewHtml,        \* renderPreviewContent's previewHtml
    pdfHtml,            \* the PDF route's html, before the styling wrapper
    rendered,           \* which of the two render paths have run
    fieldList,          \* ContractForm input: template.fields
    candidate,          \* the candidate record (the form's values)
    validation,         \* the result of validating the candidate
    sections,           \* the field groups of the form
    form,               \* the ContractForm component: its schema and its request
    openBrowsers,       \* the browsers puppeteer launched and did not close
    dbTemplates,        \* DatabaseStorage: the rows of contract_templates
    seeder,             \* DatabaseStorage: the server process and its initializeTemplates
    fetched,            \* what GET /api/templates answered last
    requests,           \* the requests in flight, each at an await of its handler
    home                \* the Home page: its state hooks

storeVars  == <<contractTemplates, contracts, currentContractId, clock, response,
                openBrowsers>>
renderVars == <<tplText, data, previewHtml, pdfHtml, rendered>>
formVars   == <<fieldList, candidate, validation, sections, form>>
dbVars     == <<dbTemplates, seeder, fetched>>
vars       == <<contractTemplates, contracts, currentContractId, clock, response,
                tplText, data, previewHtml, pdfHtml, rendered,
                fieldList, candidate, validation, sections, form,
                openBrowsers, dbTemplates, seeder, fetched, requests, home>>

---------------------------------------------------------------------------
(* JavaScript values held in a contract's data mapping.                    *)

Str(s)  == [t |-> "str",  s |-> s,    n |-> 0]
Num(n)  == [t |-> "num",  s |-> <<>>, n |-> n]
Null    == [t |-> "null", s |-> <<>>, n |-> 0]
Undef   == [t |-> "undef", s |-> <<>>, n |-> 0]

\* if (value) / value || '' : "", 0, null and undefined are falsy
Truthy(v) ==
    \/ v.t = "str" /\ v.s # <<>>
    \/ v.t = "num" /\ v.n # 0

Digit(d) == <<"0", "1", "2", "3", "4", "5", "6", "7", "8", "9">>[d + 1]

RECURSIVE Digits(_)
Digits(n) == IF n < 10 THEN <<Digit(n)>> ELSE Digits(n \div 10) \o <<Digit(n % 10)>>

\* String(value)
String(v) ==
    CASE v.t = "str"  -> v.s
      [] v.t = "num"  -> IF v.n < 0 THEN <<"-">> \o Digits(0 - v.n) ELSE Digits(v.n)
      [] v.t = "null" -> <<"null">>
      [] v.t = "undef" -> <<"undefined">>

---------------------------------------------------------------------------
(* Objects as entry sequences.                                             *)

KeysOf(obj) == {obj[i][1] : i \in 1..Len(obj)}
HasKey(obj, k) == \E i \in 1..Len(obj) : obj[i][1] = k
Get(obj, k) == obj[CHOOSE i \in 1..Len(obj) : obj[i][1] = k][2]

---------------------------------------------------------------------------
(* Regular expressions built by the renderers.                             *)

\* the character class of placeholder.replace(/[.*+?^${}()|[\]\\]/g, '\\$&')
RegexMeta == {".", "*", "+", "?", "^", "$", "{", "}", "(", ")", "|", "[", "]", "\\"}

\* `{{${key}}}`
Placeholder(key) == <<"{", "{">> \o key \o <<"}", "}">>

\* the conditional marker of the employment template: {{#if <id>}} ... {{/if}}
IfOpen(key) == <<"{", "{", "#if ">> \o key \o <<"}", "}">>
IfClose     == <<"{", "{", "/if", "}", "}">>

\* an escape that covers the braces and leaves the dot a wildcard
EscapeBracesOnly(s) == [i \in 1..Len(s) |-> [esc |-> s[i] \in {"{", "}"}, c |-> s[i]]]

\* placeholder.replace(/[.*+?^${}()|[\]\\]/g, '\\$&'): a pattern is a sequence
\* of atoms; esc = the symbol is preceded by a backslash
EscapeRegExp(s) == [i \in 1..Len(s) |-> [esc |-> s[i] \in RegexMeta, c |-> s[i]]]

\* one atom against one symbol: an escaped atom and a plain symbol match
\* themselves, an unescaped dot matches any symbol
AtomMatches(atom, ch) ==
    CASE atom.esc                -> ch = atom.c
      [] atom.c = "."            -> TRUE
      [] atom.c \notin RegexMeta -> ch = atom.c
      [] OTHER                   -> FALSE

MatchAt(pat, text, i) ==
    /\ i + Len(pat) - 1 <= Len(text)
    /\ \A j \in 1..Len(pat) : AtomMatches(pat[j], text[i + j - 1])

\* GetSubstitution: the replacement string's $-patterns (the patterns built
\* here have no capture groups, so $1..$99 and $< stay as written)
RECURSIVE GetSubstitution(_, _, _, _)
GetSubstitution(repl, text, pos, len) ==
    IF repl = <<>> THEN <<>>
    ELSE IF repl[1] = "$" /\ Len(repl) >= 2 /\ repl[2] \in {"$", "&", "`", "'"}
    THEN (CASE repl[2] = "$" -> <<"$">>
            [] repl[2] = "&" -> SubSeq(text, pos, pos + len - 1)
            [] repl[2] = "`" -> SubSeq(text, 1, pos - 1)
            [] repl[2] = "'" -> SubSeq(text, pos + len, Len(text)))
         \o GetSubstitution(SubSeq(repl, 3, Len(repl)), text, pos, len)
    ELSE <<repl[1]>> \o GetSubstitution(Tail(repl), text, pos, len)

Min(S) == CHOOSE x \in S : \A y \in S : x <= y

\* the start of the leftmost match at or after i, or 0
NextMatch(pat, text, i) ==
    LET starts == {j \in i..Len(text) : MatchAt(pat, text, j)}
    IN  IF Len(pat) = 0 \/ starts = {} THEN 0 ELSE Min(starts)

\* text.replace(new RegExp(pat, 'g'), repl): leftmost matches, left to right
RECURSIVE ReplaceFrom(_, _, _, _)
ReplaceFrom(pat, repl, text, i) ==
    LET j == NextMatch(pat, text, i)
    IN  IF j = 0 THEN SubSeq(text, i, Len(text))
        ELSE SubSeq(text, i, j - 1)
             \o GetSubstitution(repl, text, j, Len(pat))
             \o ReplaceFrom(pat, repl, text, j + Len(pat))

ReplaceAll(pat, repl, text) == ReplaceFrom(pat, repl, text, 1)

\* the start positions of the matches the global replace visits
RECURSIVE MatchesFrom(_, _, _)
MatchesFrom(pat, text, i) ==
    LET j == NextMatch(pat, text, i)
    IN  IF j = 0 THEN {} ELSE {j} \cup MatchesFrom(pat, text, j + Len(pat))

---------------------------------------------------------------------------
(* The sentinel sweep: previewHtml.replace(/\{\{[^}]+\}\}/g, '___')        *)

Sentinel == <<"_", "_", "_">>

\* the first index >= i holding "}", or Len(text) + 1
FirstClose(text, i) ==
    Min({j \in i..Len(text) : text[j] = "}"} \cup {Len(text) + 1})

\* the length of the match of \{\{[^}]+\}\} that starts at i, or 0
GenericMatchLen(text, i) ==
    IF i + 1 <= Len(text) /\ text[i] = "{" /\ text[i + 1] = "{"
    THEN LET j == FirstClose(text, i + 2)
         IN  IF j > i + 2 /\ j + 1 <= Len(text) /\ text[j + 1] = "}"
             THEN j + 2 - i
             ELSE 0
    ELSE 0

\* a sweep that passes over the conditional markers {{#if ...}} and {{/if}}
NextPlainMatch(text, i) ==
    LET starts == {j \in i..Len(text) :
                     /\ GenericMatchLen(text, j) > 0
                     /\ text[j + 2] \notin {"#if ", "/if"}}
    IN  IF starts = {} THEN 0 ELSE Min(starts)

\* the start of the leftmost match of \{\{[^}]+\}\} at or after i, or 0
NextGenericMatch(text, i) ==
    LET starts == {j \in i..Len(text) : GenericMatchLen(text, j) > 0}
    IN  IF starts = {} THEN 0 ELSE Min(starts)

RECURSIVE SweepFrom(_, _)
SweepFrom(text, i) ==
    LET j == NextGenericMatch(text, i)
    IN  IF j = 0 THEN SubSeq(text, i, Len(text))
        ELSE SubSeq(text, i, j - 1) \o Sentinel
             \o SweepFrom(text, j + GenericMatchLen(text, j))

NoSweep(text) == text

SweepPlaceholders(text) == SweepFrom(text, 1)

---------------------------------------------------------------------------
(* The two renderers.                                                      *)

\* html.replace(new RegExp(placeholder.replace(<meta>, '\\$&'), 'g'), repl)
SubstituteKey(text, key, repl) ==
    ReplaceAll(EscapeRegExp(Placeholder(key)), repl, text)

\* contract-preview.tsx: for (const [key, value] of Object.entries(data))
\*   if (value) previewHtml = previewHtml.replace(..., String(value))
RECURSIVE PreviewSubstitute(_, _, _)
PreviewSubstitute(text, obj, i) ==
    IF i > Len(obj) THEN text
    ELSE LET key   == obj[i][1]
             value == obj[i][2]
         IN  PreviewSubstitute(
                 IF Truthy(value) THEN SubstituteKey(text, key, String(value)) ELSE text,
                 obj, i + 1)

RenderPreviewContent(text, obj) == SweepPlaceholders(PreviewSubstitute(text, obj, 1))

\* routes: for (const [key, value] of Object.entries(data))
\*   html = html.replace(..., String(value || ''))
RECURSIVE PdfSubstitute(_, _, _)
PdfSubstitute(text, obj, i) ==
    IF i > Len(obj) THEN text
    ELSE LET key   == obj[i][1]
             value == obj[i][2]
         IN  PdfSubstitute(
                 SubstituteKey(text, key, IF Truthy(value) THEN String(value) ELSE <<>>),
                 obj, i + 1)

RenderPdfHtml(text, obj) == PdfSubstitute(text, obj, 1)

\* the <!DOCTYPE html> ... <style> ... <body> ${html} </body></html> wrapper
StyledHtml(html) == <<"<!DOCTYPE html><html><head><style/></head><body>">> \o html \o <<"</body></html>">>

---------------------------------------------------------------------------
(* Renderer inputs: bounded sets of template texts and data mappings.      *)

MaxSegs == 3

KeyA   == <<"a">>
KeyAB  == <<"a", ".", "b">>
RenderKeys == {KeyA, KeyAB}

FalsyValues  == {Str(<<>>), Num(0), Null}
PlainValues  == {Str(<<"v">>), Num(7)}
MarkupValues == {Str(<<"$", "&">>), Str(Placeholder(KeyA))}
RenderValues == FalsyValues \cup PlainValues \cup MarkupValues

Segments ==
    { Placeholder(KeyA), Placeholder(KeyAB), Placeholder(<<"a", "X", "b">>),
      <<"x">>, <<"{">>, <<"}">> }

RECURSIVE Concat(_)
Concat(ss) == IF ss = <<>> THEN <<>> ELSE Head(ss) \o Concat(Tail(ss))

SegTemplates == {Concat(ss) : ss \in UNION {[1..n -> Segments] : n \in 0..MaxSegs}}

IfTemplates ==
    { pre \o IfOpen(k) \o mid \o IfClose \o post :
        pre \in {<<>>, <<"x">>}, k \in RenderKeys,
        mid \in {<<>>, <<"x">>, Placeholder(KeyA), Placeholder(KeyAB)},
        post \in {<<>>, <<"x">>} }

TemplateTexts == SegTemplates \cup IfTemplates

\* objects over RenderKeys, in every property order
DataObjects ==
    { obj \in UNION {[1..n -> RenderKeys \X RenderValues] : n \in 0..Cardinality(RenderKeys)} :
        \A i, j \in 1..Len(obj) : i # j => obj[i][1] # obj[j][1] }

---------------------------------------------------------------------------
(* The built-in catalog (initializeTemplates).  "~" stands for a run of    *)
(* Japanese text; option values are transliterated.                        *)

\* a field that drops its options
FieldWithoutOptions(id, type, required, options) ==
    [id |-> id, type |-> type, required |-> required, options |-> <<>>]

Field(id, type, required, options) ==
    [id |-> id, type |-> type, required |-> required, options |-> options]

EmploymentText ==
    <<"<div class='contract-document'> <h1 class='contract-title'>~</h1> <div class='contract-parties'> <div class='employer-info'> <h3>~</h3> <p>">> \o
    Placeholder(<<"employer", ".", "companyName">>) \o
    <<"</p> <p>~">> \o
    Placeholder(<<"employer", ".", "representativeName">>) \o
    <<"</p> <p>~">> \o
    Placeholder(<<"employer", ".", "address">>) \o
    <<"</p> </div> <div class='employee-info'> <h3>~</h3> <p>">> \o
    Placeholder(<<"employee", ".", "name">>) \o
    <<"</p> <p>~">> \o
    Placeholder(<<"employee", ".", "birthDate">>) \o
    <<"</p> <p>~">> \o
    Placeholder(<<"employee", ".", "address">>) \o
    <<"</p> </div> </div> <p class='contract-intro'>~</p> <div class='contract-clauses'> <div class='clause'> <h4>~1~</h4> <p>~">> \o
    Placeholder(<<"employment", ".", "position">>) \o
    <<"~</p> </div> <div class='clause'> <h4>~2~</h4> <p>~">> \o
    Placeholder(<<"employment", ".", "startDate">>) \o
    <<"~">> \o
    Placeholder(<<"employment", ".", "type">>) \o
    <<"~</p>">> \o
    IfOpen(<<"employment", ".", "probationPeriod">>) \o
    <<"<p>~">> \o
    Placeholder(<<"employment", ".", "probationPeriod">>) \o
    <<"~</p>">> \o
    IfClose \o
    <<"</div> <div class='clause'> <h4>~3~</h4> <p>~">> \o
    Placeholder(<<"employment", ".", "workStartTime">>) \o
    <<"~">> \o
    Placeholder(<<"employment", ".", "workEndTime">>) \o
    <<"~</p> </div> <div class='clause'> <h4>~4~</h4> <p>~">> \o
    Placeholder(<<"employment", ".", "salary">>) \o
    <<"~">> \o
    Placeholder(<<"employment", ".", "paymentDate">>) \o
    <<"~</p> </div> </div> <div class='contract-footer'> <p>~2~1~</p> <div class='signature-section'> <div class='date'>~">> \o
    Placeholder(<<"contractDate">>) \o
    <<"</div> </div> </div> </div>">>

EmploymentFields ==
    << Field(<<"employer", ".", "companyName">>, "text", TRUE, <<>>),
       Field(<<"employer", ".", "representativeName">>, "text", TRUE, <<>>),
       Field(<<"employer", ".", "address">>, "text", TRUE, <<>>),
       Field(<<"employee", ".", "name">>, "text", TRUE, <<>>),
       Field(<<"employee", ".", "birthDate">>, "date", TRUE, <<>>),
       Field(<<"employee", ".", "address">>, "text", TRUE, <<>>),
       Field(<<"employment", ".", "type">>, "select", TRUE, <<<<"seishain">>, <<"part-time">>, <<"keiyaku">>, <<"rinji">>>>),
       Field(<<"employment", ".", "position">>, "text", TRUE, <<>>),
       Field(<<"employment", ".", "startDate">>, "date", TRUE, <<>>),
       Field(<<"employment", ".", "probationPeriod">>, "select", FALSE, <<<<>>, <<"1m">>, <<"3m">>, <<"6m">>>>),
       Field(<<"employment", ".", "salary">>, "number", TRUE, <<>>),
       Field(<<"employment", ".", "paymentDate">>, "select", TRUE, <<<<"25th">>, <<"month-end">>, <<"15th">>>>),
       Field(<<"employment", ".", "workStartTime">>, "time", TRUE, <<>>),
       Field(<<"employment", ".", "workEndTime">>, "time", TRUE, <<>>),
       Field(<<"contractDate">>, "date", TRUE, <<>>) >>

ServiceText ==
    <<"<div class='contract-document'> <h1 class='contract-title'>~</h1> <div class='contract-parties'> <div class='client-info'> <h3>~</h3> <p>">> \o
    Placeholder(<<"client", ".", "companyName">>) \o
    <<"</p> <p>~">> \o
    Placeholder(<<"client", ".", "representativeName">>) \o
    <<"</p> <p>~">> \o
    Placeholder(<<"client", ".", "address">>) \o
    <<"</p> </div> <div class='contractor-info'> <h3>~</h3> <p>">> \o
    Placeholder(<<"contractor", ".", "name">>) \o
    <<"</p> <p>~">> \o
    Placeholder(<<"contractor", ".", "address">>) \o
    <<"</p> </div> </div> <p class='contract-intro'>~</p> <div class='contract-clauses'> <div class='clause'> <h4>~1~</h4> <p>~">> \o
    Placeholder(<<"service", ".", "description">>) \o
    <<"~</p> </div> <div class='clause'> <h4>~2~</h4> <p>~">> \o
    Placeholder(<<"service", ".", "startDate">>) \o
    <<"~">> \o
    Placeholder(<<"service", ".", "endDate">>) \o
    <<"~</p> </div> <div class='clause'> <h4>~3~</h4> <p>~">> \o
    Placeholder(<<"service", ".", "paymentType">>) \o
    Placeholder(<<"service", ".", "amount">>) \o
    <<"~">> \o
    Placeholder(<<"service", ".", "paymentSchedule">>) \o
    <<"~</p> </div> <div class='clause'> <h4>~4~</h4> <p>~">> \o
    Placeholder(<<"service", ".", "deliveryDate">>) \o
    <<"~</p> </div> </div> <div class='contract-footer'> <p>~2~1~</p> <div class='signature-section'> <div class='date'>~">> \o
    Placeholder(<<"contractDate">>) \o
    <<"</div> </div> </div> </div>">>

ServiceFields ==
    << Field(<<"client", ".", "companyName">>, "text", TRUE, <<>>),
       Field(<<"client", ".", "representativeName">>, "text", TRUE, <<>>),
       Field(<<"client", ".", "address">>, "text", TRUE, <<>>),
       Field(<<"contractor", ".", "name">>, "text", TRUE, <<>>),
       Field(<<"contractor", ".", "address">>, "text", TRUE, <<>>),
       Field(<<"service", ".", "description">>, "text", TRUE, <<>>),
       Field(<<"service", ".", "startDate">>, "date", TRUE, <<>>),
       Field(<<"service", ".", "endDate">>, "date", TRUE, <<>>),
       Field(<<"service", ".", "paymentType">>, "select", TRUE, <<<<"lump">>, <<"monthly">>, <<"hourly">>>>),
       Field(<<"service", ".", "amount">>, "number", TRUE, <<>>),
       Field(<<"service", ".", "paymentSchedule">>, "text", TRUE, <<>>),
       Field(<<"service", ".", "deliveryDate">>, "date", TRUE, <<>>),
       Field(<<"contractDate">>, "date", TRUE, <<>>) >>

RentalText ==
    <<"<div class='contract-document'> <h1 class='contract-title'>~</h1> <p>~</p> </div>">>

NdaText ==
    <<"<div class='contract-document'> <h1 class='contract-title'>~</h1> <p>~</p> </div>">>

Template(name, fieldCount, text, fields) ==
    [name |-> name, fieldCount |-> fieldCount, template |-> text, fields |-> fields]

BuiltInTemplates ==
    << Template("employment", 15, EmploymentText, EmploymentFields),
       Template("service", 12, ServiceText, ServiceFields),
       Template("rental", 25, RentalText, <<>>),
       Template("nda", 12, NdaText, <<>>) >>

\* MemStorage.createContractTemplate: { ...insertTemplate, id }
WithId(t, id) ==
    [id |-> id, name |-> t.name, fieldCount |-> t.fieldCount,
     template |-> t.template, fields |-> t.fields]

\* MemStorage's constructor: currentTemplateId = 1, then one
\* createContractTemplate per built-in template
MemSeededTemplates == [id \in 1..Len(BuiltInTemplates) |-> WithId(BuiltInTemplates[id], id)]

---------------------------------------------------------------------------
(* createFormSchema: the validator derived from a template's field list.   *)

\* a rule that makes no difference between required and optional fields
RuleWithoutRequired(field, obj) ==
    \/ ~HasKey(obj, field.id)
    \/ Get(obj, field.id).t = "undef"
    \/ CASE field.type = "number" -> Get(obj, field.id).t = "num" /\ Get(obj, field.id).n >= 0
          [] field.type = "date"   -> Get(obj, field.id).t = "str" /\ Len(Get(obj, field.id).s) >= 1
          [] OTHER                 -> Get(obj, field.id).t = "str"

\* the rule of one field applied to obj[field.id]
FieldAccepts(field, obj) ==
    IF ~HasKey(obj, field.id) \/ Get(obj, field.id).t = "undef"
    THEN ~field.required
    ELSE LET v    == Get(obj, field.id)
             base == CASE field.type = "number" -> v.t = "num" /\ v.n >= 0
                       [] field.type = "date"   -> v.t = "str" /\ Len(v.s) >= 1
                       [] OTHER                 -> v.t = "str"
         IN  /\ base
             /\ field.required => ~(v.t = "str" /\ v.s = <<>>) /\ v.t # "null"

\* z.object(schemaFields).safeParse(obj).success; an empty field list gives
\* z.object({ _placeholder: z.string().optional() })
FormSchemaAccepts(fields, obj) ==
    IF Len(fields) = 0
    THEN ~HasKey(obj, <<"_placeholder">>) \/ Get(obj, <<"_placeholder">>).t \in {"str", "undef"}
    ELSE \A i \in 1..Len(fields) : FieldAccepts(fields[i], obj)

\* the field-ids whose rule fails
FailingFields(fields, obj) ==
    {fields[i].id : i \in {j \in 1..Len(fields) : ~FieldAccepts(fields[j], obj)}}

\* what may stand where a field list is expected: kind is "array",
\* "undefined", "null" or "object" (a value that is no array); items is the
\* array's content
FieldList(kind, items) == [kind |-> kind, items |-> items]

\* !fields || !Array.isArray(fields) || fields.length === 0
IsDegenerate(fl) == fl.kind # "array" \/ Len(fl.items) = 0

\* a placeholder key that is required
RequiredPlaceholder == << [id |-> <<"_placeholder">>, type |-> "text", required |-> TRUE,
                           options |-> <<>>] >>

\* z.object({ _placeholder: z.string().optional() })
PlaceholderSchema == << Field(<<"_placeholder">>, "text", FALSE, <<>>) >>

\* createFormSchema(fields): the schema as the sequence of its keys' rules
CreateFormSchema(fl) == IF IsDegenerate(fl) THEN PlaceholderSchema ELSE fl.items

\* the object z.object(...).parse yields: the keys of the schema that the
\* candidate holds, in the schema's order; keys the schema lacks are stripped
ParsedOutput(schema, obj) ==
    LET held == SelectSeq(schema, LAMBDA f : HasKey(obj, f.id))
    IN  [i \in 1..Len(held) |-> <<held[i].id, Get(obj, held[i].id)>>]

\* schema.safeParse(obj): success, the field-ids of the issues, the output
SafeParse(schema, obj) ==
    [ran     |-> TRUE,
     success |-> \A i \in 1..Len(schema) : FieldAccepts(schema[i], obj),
     issues  |-> FailingFields(schema, obj),
     output  |-> ParsedOutput(schema, obj)]

NotValidated == [ran |-> FALSE, success |-> FALSE, issues |-> {}, output |-> <<>>]

DigitValue(c) == CHOOSE d \in 0..9 : Digit(d) = c
IsDigit(c)    == \E d \in 0..9 : Digit(d) = c

RECURSIVE DigitsValue(_)
DigitsValue(s) ==
    IF s = <<>> THEN 0 ELSE 10 * DigitsValue(SubSeq(s, 1, Len(s) - 1)) + DigitValue(s[Len(s)])

\* Number(e.target.value) for the input of a number field: nan = TRUE for
\* text that is no decimal numeral; Number("") is 0
ToNumber(v) ==
    IF v.t = "num" THEN [nan |-> FALSE, n |-> v.n]
    ELSE IF v.t # "str" THEN [nan |-> v.t = "undef", n |-> 0]
    ELSE LET neg  == v.s # <<>> /\ v.s[1] = "-"
             body == IF neg THEN Tail(v.s) ELSE v.s
         IN  IF (neg /\ body = <<>>) \/ \E i \in 1..Len(body) : ~IsDigit(body[i])
             THEN [nan |-> TRUE, n |-> 0]
             ELSE [nan |-> FALSE, n |-> IF neg THEN 0 - DigitsValue(body) ELSE DigitsValue(body)]

---------------------------------------------------------------------------
(* ContractForm: the field groups.                                         *)

\* field.id.startsWith(prefix); an id is its runs of non-dot text and its dots
StartsWith(id, prefix) ==
    Len(id) >= Len(prefix) /\ SubSeq(id, 1, Len(prefix)) = prefix

SectionNames == <<"employer", "employee", "employment", "client", "contractor", "service">>

\* an id that holds the prefix anywhere
HoldsPrefix(fields, section) ==
    SelectSeq(fields, LAMBDA f :
        \E p \in 1..Len(f.id) : StartsWith(SubSeq(f.id, p, Len(f.id)), <<section, ".">>))

\* fields.filter(field => field.id.startsWith(`${section}.`))
GetFieldsBySection(fields, section) ==
    SelectSeq(fields, LAMBDA f : StartsWith(f.id, <<section, ".">>))

\* the fields no prefix test takes
OtherFields(fields) ==
    SelectSeq(fields, LAMBDA f :
        \A n \in 1..Len(SectionNames) : ~StartsWith(f.id, <<SectionNames[n], ".">>))

\* (template.fields as ContractField[]) || []
TemplateFields(fl) == IF fl.kind \in {"undefined", "null"} THEN <<>> ELSE fl.items

\* the seven groups of the form, "other" last
GroupFields(fields) ==
    [n \in 1..(Len(SectionNames) + 1) |->
        IF n <= Len(SectionNames) THEN GetFieldsBySection(fields, SectionNames[n])
        ELSE OtherFields(fields)]

\* the groups the JSX maps renderField over: employerFields, employeeFields,
\* employmentFields and otherFields
RenderedGroups == <<1, 2, 3, Len(SectionNames) + 1>>

\* the fields that become inputs of the form, in the order of the sections
RenderedInputs(groups) ==
    groups[RenderedGroups[1]] \o groups[RenderedGroups[2]]
        \o groups[RenderedGroups[3]] \o groups[RenderedGroups[4]]

NotGrouped == [status |-> "none", groups |-> <<>>, inputs |-> <<>>]

---------------------------------------------------------------------------
(* Contracts, request bodies and responses.                                *)

Undefined == "undefined"

\* a request body: has = the keys it carries; typed = every key it carries
\* has the type insertContractSchema gives that column
Body(has, templateId, title, obj, status, typed) ==
    [has |-> has, templateId |-> templateId, title |-> title, data |-> obj,
     status |-> status, typed |-> typed]

NoBody     == Body({}, 0, "", <<>>, "", TRUE)
NoContract == [id |-> 0, templateId |-> 0, title |-> "", data |-> <<>>,
               status |-> "", createdAt |-> 0, updatedAt |-> 0]

Response(op, id, req, status, json, errors, html) ==
    [op |-> op, id |-> id, req |-> req, status |-> status, json |-> json,
     errors |-> errors, html |-> html]

\* insertContractSchema.parse(req.body): templateId, title and data are
\* required (notNull, no default), status is optional (it has a default)
InsertRequired == {"templateId", "title", "data"}
InsertSchemaAccepts(body) == body.typed /\ InsertRequired \subseteq body.has
InsertSchemaIssues(body) ==
    {<<k>> : k \in InsertRequired \ body.has} \cup (IF body.typed THEN {} ELSE {<<"type">>})

\* insertContractSchema.partial().parse(req.body): every key optional
PartialSchemaAccepts(body) == body.typed

\* an id policy that fills the lowest gap
LowestFreeId(counter, map) == CHOOSE i \in 1..counter : i \notin DOMAIN map /\ \A j \in 1..(i - 1) : j \in DOMAIN map

\* const id = this.currentContractId++
FreshId(counter, map) == counter

\* MemStorage.createContract: { ...insertContract, id, createdAt: now, updatedAt: now }
NewContract(body, id, now) ==
    [id        |-> id,
     templateId |-> body.templateId,
     title     |-> body.title,
     data      |-> body.data,
     status    |-> IF "status" \in body.has THEN body.status ELSE Undefined,
     createdAt |-> now,
     updatedAt |-> now]

\* MemStorage.updateContract: { ...existing, ...updateData, updatedAt: new Date() }
UpdatedContract(existing, body, now) ==
    [id        |-> existing.id,
     templateId |-> IF "templateId" \in body.has THEN body.templateId ELSE existing.templateId,
     title     |-> IF "title" \in body.has THEN body.title ELSE existing.title,
     data      |-> IF "data" \in body.has THEN body.data ELSE existing.data,
     status    |-> IF "status" \in body.has THEN body.status ELSE existing.status,
     createdAt |-> existing.createdAt,
     updatedAt |-> now]

\* a delete that leaves the map as it is
Keep(map, id) == map

Put(map, id, c) == [i \in DOMAIN map \cup {id} |-> IF i = id THEN c ELSE map[i]]
Remove(map, id) == [i \in DOMAIN map \ {id} |-> map[i]]

---------------------------------------------------------------------------
(* Requests the model issues.                                              *)

MaxContracts == 2
MaxClock     == 3
MaxBrowsers  == 1

KeyB == <<"b">>
ObjAB12 == << <<KeyA, Str(<<"1">>)>>, <<KeyB, Str(<<"2">>)>> >>
ObjB3   == << <<KeyB, Str(<<"3">>)>> >>

\* a value the form would submit for a field
SampleValue(field) ==
    CASE field.type = "number" -> Num(300000)
      [] field.type = "date"   -> Str(<<"2024-01-01">>)
      [] field.type = "time"   -> Str(<<"09:00">>)
      [] field.type = "select" -> Str(field.options[1])
      [] OTHER                 -> Str(<<"Acme">>)

RequiredFields(fields) == SelectSeq(fields, LAMBDA f : f.required)

\* every required field of the employment template, filled
FullEmploymentData ==
    [i \in 1..Len(RequiredFields(EmploymentFields)) |->
        <<RequiredFields(EmploymentFields)[i].id, SampleValue(RequiredFields(EmploymentFields)[i])>>]

EmploymentId == 1
\* an id past the seeded templates
UnknownTemplateId == Len(BuiltInTemplates) + 1

CreateBodies ==
    { Body(InsertRequired, EmploymentId, "t1", FullEmploymentData, "", TRUE),
      Body(InsertRequired \cup {"status"}, EmploymentId, "t1", ObjAB12, "completed", TRUE),
      Body(InsertRequired \cup {"status"}, UnknownTemplateId, "t1", ObjAB12, "archived", TRUE),
      Body({"templateId", "data"}, EmploymentId, "", FullEmploymentData, "", TRUE) }

UpdateBodies ==
    { Body({"data"}, 0, "", ObjB3, "", TRUE),
      Body({"data", "status"}, 0, "", ObjB3, "draft", TRUE),
      Body({"title"}, 0, "t2", <<>>, "", TRUE),
      Body({"templateId"}, UnknownTemplateId, "", <<>>, "", TRUE),
      Body({"title"}, 0, "", <<>>, "", FALSE) }

ContractIds == 1..(MaxContracts + 1)

---------------------------------------------------------------------------
(* Route handlers over MemStorage.                                         *)

\* POST /api/contracts
PostContract(body) ==
    /\ currentContractId <= MaxContracts
    /\ clock < MaxClock
    /\ IF InsertSchemaAccepts(body)
       THEN LET id == FreshId(currentContractId, contracts)
                c  == NewContract(body, id, clock)
            IN  /\ contracts' = Put(contracts, id, c)
                /\ currentContractId' = currentContractId + 1
                /\ clock' = clock + 1
                /\ response' = Response("create", 0, body, 201, c, {}, <<>>)
       ELSE /\ response' = Response("create", 0, body, 400, NoContract,
                                    InsertSchemaIssues(body), <<>>)
            /\ UNCHANGED <<contracts, currentContractId, clock>>
    /\ UNCHANGED <<contractTemplates, openBrowsers, renderVars, formVars,
                 dbVars, requests, home>>

\* an update that stores the body under an id the store lacks
PutOrCreate(id, body) ==
    /\ clock < MaxClock
    /\ contracts' = Put(contracts, id, NewContract(body, id, clock))
    /\ clock' = clock + 1
    /\ response' = Response("update", id, body, 200, NewContract(body, id, clock), {}, <<>>)
    /\ UNCHANGED <<contractTemplates, openBrowsers, currentContractId, renderVars, formVars,
                   dbVars, requests, home>>

\* PUT /api/contracts/:id
PutContract(id, body) ==
    /\ clock < MaxClock
    /\ IF ~PartialSchemaAccepts(body)
       THEN /\ response' = Response("update", id, body, 400, NoContract, {<<"type">>}, <<>>)
            /\ UNCHANGED <<contracts, clock>>
       ELSE IF id \notin DOMAIN contracts
       THEN /\ response' = Response("update", id, body, 404, NoContract, {}, <<>>)
            /\ UNCHANGED <<contracts, clock>>
       ELSE LET c == UpdatedContract(contracts[id], body, clock)
            IN  /\ contracts' = Put(contracts, id, c)
                /\ clock' = clock + 1
                /\ response' = Response("update", id, body, 200, c, {}, <<>>)
    /\ UNCHANGED <<contractTemplates, openBrowsers, currentContractId, renderVars, formVars,
                 dbVars, requests, home>>

\* DELETE /api/contracts/:id
DeleteContract(id) ==
    /\ IF id \in DOMAIN contracts
       THEN /\ contracts' = Remove(contracts, id)
            /\ response' = Response("delete", id, NoBody, 204, NoContract, {}, <<>>)
       ELSE /\ response' = Response("delete", id, NoBody, 404, NoContract, {}, <<>>)
            /\ UNCHANGED contracts
    /\ UNCHANGED <<contractTemplates, openBrowsers, currentContractId, clock, renderVars, formVars,
                 dbVars, requests, home>>

\* GET /api/contracts/:id
GetContract(id) ==
    /\ response' = IF id \in DOMAIN contracts
                   THEN Response("get", id, NoBody, 200, contracts[id], {}, <<>>)
                   ELSE Response("get", id, NoBody, 404, NoContract, {}, <<>>)
    /\ UNCHANGED <<contractTemplates, contracts, currentContractId, clock, openBrowsers,
                 renderVars, formVars, dbVars, requests, home>>

\* the PDF route's html for the employment template and FullEmploymentData,
\* evaluated once
EmploymentPdfHtml == RenderPdfHtml(EmploymentText, FullEmploymentData)

\* let html = template.template; ... the replacement loop
PdfHtmlOf(text, obj) ==
    IF text = EmploymentText /\ obj = FullEmploymentData
    THEN EmploymentPdfHtml
    ELSE RenderPdfHtml(text, obj)

\* what the rasterizer does with a request: it serves it, or one of its
\* calls throws
RasterOutcomes == {"ok", "launchFails", "newPageFails", "setContentFails", "pdfFails"}

\* the outcomes in which launch() has returned a browser and close() is not
\* reached
LeavesBrowserOpen(outcome) == outcome \in {"newPageFails", "setContentFails", "pdfFails"}

\* POST /api/contracts/:id/pdf. response.html is the document the handler
\* built for the rasterizer, empty when it answered before building one
PostPdf(id) ==
    /\ IF id \notin DOMAIN contracts
       THEN /\ response' = Response("pdf", id, NoBody, 404, NoContract, {}, <<>>)
            /\ UNCHANGED openBrowsers
       ELSE IF contracts[id].templateId \notin DOMAIN contractTemplates
       THEN /\ response' = Response("pdf", id, NoBody, 404, NoContract, {}, <<>>)
            /\ UNCHANGED openBrowsers
       ELSE LET styledHtml == StyledHtml(PdfHtmlOf(
                                  contractTemplates[contracts[id].templateId].template,
                                  contracts[id].data))
            IN  \E outcome \in RasterOutcomes :
                  /\ LeavesBrowserOpen(outcome) => openBrowsers < MaxBrowsers
                  /\ response' = Response("pdf", id, NoBody,
                                          IF outcome = "ok" THEN 200 ELSE 500,
                                          NoContract, {}, styledHtml)
                  /\ openBrowsers' = IF LeavesBrowserOpen(outcome)
                                     THEN openBrowsers + 1 ELSE openBrowsers
    /\ UNCHANGED <<contractTemplates, contracts, currentContractId, clock,
                   renderVars, formVars, dbVars, requests, home>>

---------------------------------------------------------------------------
(* The two render paths applied to drawn inputs.                           *)

\* contract-preview.tsx renderPreviewContent
RenderPreview ==
    /\ "preview" \notin rendered
    /\ previewHtml' = RenderPreviewContent(tplText, data)
    /\ rendered' = rendered \cup {"preview"}
    /\ UNCHANGED <<storeVars, tplText, data, pdfHtml, formVars, dbVars, requests, home>>

\* the PDF route's "Generate HTML from template and data"
RenderPdf ==
    /\ "pdf" \notin rendered
    /\ pdfHtml' = RenderPdfHtml(tplText, data)
    /\ rendered' = rendered \cup {"pdf"}
    /\ UNCHANGED <<storeVars, tplText, data, previewHtml, formVars, dbVars, requests, home>>

---------------------------------------------------------------------------
(* ContractForm: inputs, validation, grouping and submission.              *)

MaxFields == 2

FieldPool ==
    { Field(<<"employer", ".", "companyName">>, "text", TRUE, <<>>),
      Field(<<"employer", ".", "address">>, "text", FALSE, <<>>),
      Field(<<"employee", ".", "name">>, "select", TRUE, <<<<"v">>>>),
      Field(<<"employment", ".", "salary">>, "number", TRUE, <<>>),
      Field(<<"employment", ".", "startDate">>, "date", TRUE, <<>>),
      Field(<<"client", ".", "employer", ".", "a">>, "number", FALSE, <<>>),
      Field(<<"contractor", ".", "a">>, "date", FALSE, <<>>),
      Field(<<"service", ".", "a">>, "time", TRUE, <<>>),
      Field(<<"contractDate">>, "text", TRUE, <<>>),
      Field(<<"employerX", ".", "a">>, "text", FALSE, <<>>) }

\* the lists of up to MaxFields fields with distinct ids
FieldSeqs ==
    UNION { {q \in [1..n -> FieldPool] : \A i, j \in 1..n : i # j => q[i] # q[j]}
            : n \in 0..MaxFields }

\* the field lists of the catalog's templates
CatalogFieldLists ==
    {FieldList("array", BuiltInTemplates[t].fields) : t \in 1..Len(BuiltInTemplates)}

FieldLists ==
    {FieldList("array", q) : q \in FieldSeqs}
    \cup CatalogFieldLists
    \cup {FieldList("undefined", <<>>), FieldList("null", <<>>), FieldList("object", <<>>)}

CandidateKeys ==
    { <<"employee", ".", "name">>, <<"employment", ".", "salary">>,
      <<"employment", ".", "startDate">>, <<"client", ".", "employer", ".", "a">>,
      <<"contractor", ".", "a">> }

CandidateValues ==
    { Str(<<>>), Str(<<"v">>), Str(<<"3", "0", "0", "0", "0", "0">>), Str(<<"-", "5">>),
      Num(300000), Num(0 - 5), Null, Undef }

UnknownKey == <<"zz">>

\* at most one entry of a known key, and before or without it an unknown key
Candidates ==
    { pre \o known :
        pre \in {<<>>, << <<UnknownKey, Str(<<"1">>)>> >>},
        known \in {<<>>} \cup { << <<k, v>> >> : k \in CandidateKeys, v \in CandidateValues } }

NoRequest == [method |-> "none", id |-> 0, body |-> NoBody]

FormUnmounted == [status |-> "unmounted", schema |-> <<>>, errors |-> {}, issued |-> NoRequest]

\* the template and the contract the form is opened for
FormTemplateId == EmploymentId
FormContractIds == {0, 1}

\* createFormSchema applied to the field list, and the schema to the candidate
ValidateCandidate ==
    /\ ~validation.ran
    /\ validation' = SafeParse(CreateFormSchema(fieldList), candidate)
    /\ UNCHANGED <<storeVars, renderVars, dbVars, requests, home,
                 fieldList, candidate, sections, form>>

\* the grouping of lines 162-176; filter is no function of a non-array
GroupTemplateFields ==
    /\ sections.status = "none"
    /\ sections' = IF fieldList.kind = "object"
                   THEN [status |-> "threw", groups |-> <<>>, inputs |-> <<>>]
                   ELSE [status |-> "done", groups |-> GroupFields(TemplateFields(fieldList)),
                         inputs |-> RenderedInputs(GroupFields(TemplateFields(fieldList)))]
    /\ UNCHANGED <<storeVars, renderVars, dbVars, requests, home,
                 fieldList, candidate, validation, form>>

\* the component body up to the JSX. Line 74 reads templateFields, a const
\* declared at line 162: under ES2015 scoping the read throws a
\* ReferenceError, under a build that lowers const to var it reads undefined
RenderForm(build) ==
    /\ form.status = "unmounted"
    /\ form' = IF build = "tdz" \/ fieldList.kind = "object"
               THEN [form EXCEPT !.status = "threw"]
               ELSE [form EXCEPT !.status = "ready",
                                 !.schema = CreateFormSchema(FieldList("undefined", <<>>))]
    /\ UNCHANGED <<storeVars, renderVars, dbVars, requests, home,
                 fieldList, candidate, validation, sections>>

\* handleSaveAsDraft: form.handleSubmit(onSubmit)() with the form holding the
\* candidate; contractId is the prop of the component
HandleSaveAsDraft(contractId) ==
    /\ form.status = "ready"
    /\ LET r == SafeParse(form.schema, candidate)
       IN  form' =
             IF ~r.success THEN [form EXCEPT !.status = "invalid", !.errors = r.issues]
             ELSE [form EXCEPT
                     !.status = "submitted",
                     !.issued =
                        IF contractId # 0
                        THEN [method |-> "PUT", id |-> contractId,
                              body |-> Body({"data", "status"}, 0, "", r.output, "draft", TRUE)]
                        ELSE [method |-> "POST", id |-> 0,
                              body |-> Body(InsertRequired \cup {"status"}, FormTemplateId,
                                            "t1", r.output, "draft", TRUE)]]
    /\ UNCHANGED <<storeVars, renderVars, dbVars, requests, home,
                 fieldList, candidate, validation, sections>>

---------------------------------------------------------------------------
(* DatabaseStorage: the seeding of the template catalog.                   *)

MaxStartups == 2

\* the server process is not running
SeederDown  == [pc |-> "down", next |-> 0, startups |-> 0]
\* no GET /api/templates was answered yet
NotFetched  == [ran |-> FALSE, names |-> <<>>]

\* the names of the rows, in row order
NamesOf(rows) == [i \in 1..Len(rows) |-> rows[i].name]

\* export const storage = new DatabaseStorage(): the constructor calls
\* initializeTemplates without awaiting it, and the server goes on to listen
Startup ==
    /\ seeder.pc = "down"
    /\ seeder.startups < MaxStartups
    /\ seeder' = [pc |-> "check", next |-> 0, startups |-> seeder.startups + 1]
    /\ UNCHANGED <<storeVars, renderVars, formVars, dbTemplates, fetched, requests, home>>

\* initializeTemplates up to its first return: select ... limit(1), and
\* nothing more when a row exists
SeedCheck ==
    /\ seeder.pc = "check"
    /\ seeder' = IF Len(dbTemplates) > 0
                 THEN [seeder EXCEPT !.pc = "done"]
                 ELSE [seeder EXCEPT !.pc = "insert", !.next = 1]
    /\ UNCHANGED <<storeVars, renderVars, formVars, dbTemplates, fetched, requests, home>>

\* one turn of for (const template of templates) await createContractTemplate
SeedInsert ==
    /\ seeder.pc = "insert"
    /\ dbTemplates' = Append(dbTemplates,
                             WithId(BuiltInTemplates[seeder.next], Len(dbTemplates) + 1))
    /\ seeder' = IF seeder.next = Len(BuiltInTemplates)
                 THEN [seeder EXCEPT !.pc = "done"]
                 ELSE [seeder EXCEPT !.next = seeder.next + 1]
    /\ UNCHANGED <<storeVars, renderVars, formVars, fetched, requests, home>>

\* the process stops, wherever initializeTemplates stands; the rows stay
Stop ==
    /\ seeder.pc # "down"
    /\ seeder' = [seeder EXCEPT !.pc = "down", !.next = 0]
    /\ UNCHANGED <<storeVars, renderVars, formVars, dbTemplates, fetched, requests, home>>

\* GET /api/templates: res.json(await storage.getContractTemplates())
GetTemplates ==
    /\ seeder.pc # "down"
    /\ fetched' = [ran |-> TRUE, names |-> NamesOf(dbTemplates)]
    /\ UNCHANGED <<storeVars, renderVars, formVars, dbTemplates, seeder, requests, home>>

---------------------------------------------------------------------------
(* Requests in flight: each handler parses, calls the store and answers,   *)
(* and the handlers of different requests interleave at their awaits.      *)

MaxRequests == 3

Request(op, id, body) ==
    [op |-> op, id |-> id, body |-> body, phase |-> "received", status |-> 0, seq |-> 0]

\* the requests a batch is drawn from: two creates, two updates and a delete
\* of the first contract
RequestPool ==
    << Request("create", 0, Body(InsertRequired \cup {"status"}, EmploymentId, "t1",
                                 ObjAB12, "completed", TRUE)),
       Request("update", 1, Body({"data"}, 0, "", ObjB3, "", TRUE)),
       Request("update", 1, Body({"title"}, 0, "t2", <<>>, "", TRUE)),
       Request("delete", 1, NoBody),
       Request("create", 0, Body({"templateId", "data"}, EmploymentId, "", ObjAB12, "", TRUE)) >>

\* the elements of a set of indices, in rising order
RECURSIVE Rising(_)
Rising(S) == IF S = {} THEN <<>>
             ELSE LET m == CHOOSE x \in S : \A y \in S : x <= y
                  IN  <<m>> \o Rising(S \ {m})

\* the batches of up to MaxRequests requests of the pool
RequestBatches ==
    { [k \in 1..Cardinality(S) |-> RequestPool[Rising(S)[k]]] :
        S \in {T \in SUBSET (1..Len(RequestPool)) :
                  Cardinality(T) >= 1 /\ Cardinality(T) <= MaxRequests} }

StoreState(c, n, t) == [contracts |-> c, currentContractId |-> n, clock |-> t]

\* the store after one call of createContract, updateContract or
\* deleteContract, each of which runs from its first line to its return
\* without an await
Serve(st, req) ==
    IF req.op = "create"
    THEN LET id == FreshId(st.currentContractId, st.contracts)
         IN  StoreState(Put(st.contracts, id, NewContract(req.body, id, st.clock)),
                        st.currentContractId + 1, st.clock + 1)
    ELSE IF req.op = "update"
    THEN IF req.id \in DOMAIN st.contracts
         THEN StoreState(Put(st.contracts, req.id,
                             UpdatedContract(st.contracts[req.id], req.body, st.clock)),
                         st.currentContractId, st.clock + 1)
         ELSE st
    ELSE StoreState(Remove(st.contracts, req.id), st.currentContractId, st.clock)

\* the status the route answers after the call
StatusAfter(st, req) ==
    IF req.op = "create" THEN 201
    ELSE IF req.id \notin DOMAIN st.contracts THEN 404
    ELSE IF req.op = "update" THEN 200 ELSE 204

\* the calls of the store made so far
Served == Cardinality({i \in 1..Len(requests) : requests[i].seq > 0})

\* the route up to its call of the store: the body is parsed, and a body the
\* schema rejects is answered 400
Parse(i) ==
    /\ requests[i].phase = "received"
    /\ LET req == requests[i]
           ok  == CASE req.op = "create" -> InsertSchemaAccepts(req.body)
                    [] req.op = "update" -> PartialSchemaAccepts(req.body)
                    [] OTHER -> TRUE
       IN  requests' = [requests EXCEPT ![i].phase = IF ok THEN "parsed" ELSE "answered",
                                        ![i].status = IF ok THEN 0 ELSE 400]
    /\ UNCHANGED <<storeVars, renderVars, formVars, dbVars, home>>

\* the call of the store as one step
StorageCall(i) ==
    /\ requests[i].phase = "parsed"
    /\ LET st  == StoreState(contracts, currentContractId, clock)
           new == Serve(st, requests[i])
       IN  /\ contracts' = new.contracts
           /\ currentContractId' = new.currentContractId
           /\ clock' = new.clock
           /\ requests' = [requests EXCEPT ![i].phase = "returned",
                                           ![i].status = StatusAfter(st, requests[i]),
                                           ![i].seq = Served + 1]
    /\ UNCHANGED <<contractTemplates, response, openBrowsers, renderVars, formVars,
                   dbVars, home>>

\* an update whose read of the stored contract and whose write are two steps
SplitUpdate(i) ==
    IF requests[i].op # "update"
    THEN StorageCall(i)
    ELSE LET req == requests[i]
         IN  \/ /\ req.phase = "parsed"
                /\ requests' = [requests EXCEPT ![i] =
                                  [op |-> req.op, id |-> req.id, body |-> req.body,
                                   phase |-> "read", status |-> 0, seq |-> 0,
                                   existing |-> IF req.id \in DOMAIN contracts
                                                THEN contracts[req.id] ELSE NoContract]]
                /\ UNCHANGED <<storeVars, renderVars, formVars, dbVars, home>>
             \/ /\ req.phase = "read"
                /\ contracts' = IF req.existing # NoContract
                                THEN Put(contracts, req.id,
                                         UpdatedContract(req.existing, req.body, clock))
                                ELSE contracts
                /\ clock' = IF req.existing # NoContract THEN clock + 1 ELSE clock
                /\ requests' = [requests EXCEPT ![i] =
                                  [op |-> req.op, id |-> req.id, body |-> req.body,
                                   phase |-> "returned",
                                   status |-> IF req.existing # NoContract THEN 200 ELSE 404,
                                   seq |-> Served + 1]]
                /\ UNCHANGED <<contractTemplates, currentContractId, response, openBrowsers,
                               renderVars, formVars, dbVars, home>>

\* await storage.createContract / updateContract / deleteContract: the
\* method's body runs to its return in one turn of the event loop
CallStorage(i) == StorageCall(i)

\* res.status(...).json(...) once the call has returned
Respond(i) ==
    /\ requests[i].phase = "returned"
    /\ requests' = [requests EXCEPT ![i].phase = "answered"]
    /\ UNCHANGED <<storeVars, renderVars, formVars, dbVars, home>>

---------------------------------------------------------------------------
(* The Home page: template selection, the form's save and its outcome.     *)

\* the outcomes of building ContractForm, whose line 74 reads a const
\* declared at line 162
Builds == {"tdz", "hoisted"}

\* useState(null) twice: no template selected, no current contract
HomeIdle ==
    [status |-> "idle", build |-> "hoisted", selectedTemplateId |-> 0, currentContractId |-> 0]

\* what the form holds when it is saved
HomeData == {ObjAB12, ObjB3}

\* handleTemplateSelect: setSelectedTemplateId(templateId), and nothing else;
\* the page then renders ContractForm, which throws under the "tdz" build
HandleTemplateSelect(templateId) ==
    /\ home.status # "crashed"
    /\ home' = [home EXCEPT !.selectedTemplateId = templateId,
                            !.status = IF home.build = "tdz" THEN "crashed" ELSE @]
    /\ UNCHANGED <<storeVars, renderVars, formVars, dbVars, requests>>

\* handleSaveAsDraft -> onSubmit: PUT when the contractId prop is set, POST
\* otherwise, with the route's handling of the request
HomeSave(d) ==
    /\ home.status = "idle"
    /\ home.selectedTemplateId # 0
    /\ clock < MaxClock
    /\ IF home.currentContractId # 0
       THEN LET id   == home.currentContractId
                body == Body({"data", "status"}, 0, "", d, "draft", TRUE)
            IN  IF id \notin DOMAIN contracts
                THEN /\ response' = Response("update", id, body, 404, NoContract, {}, <<>>)
                     /\ UNCHANGED <<contracts, currentContractId, clock>>
                ELSE LET c == UpdatedContract(contracts[id], body, clock)
                     IN  /\ contracts' = Put(contracts, id, c)
                         /\ clock' = clock + 1
                         /\ response' = Response("update", id, body, 200, c, {}, <<>>)
                         /\ UNCHANGED currentContractId
       ELSE LET body == Body(InsertRequired \cup {"status"}, home.selectedTemplateId,
                             "t1", d, "draft", TRUE)
                id   == FreshId(currentContractId, contracts)
                c    == NewContract(body, id, clock)
            IN  /\ contracts' = Put(contracts, id, c)
                /\ currentContractId' = currentContractId + 1
                /\ clock' = clock + 1
                /\ response' = Response("create", 0, body, 201, c, {}, <<>>)
    /\ home' = [home EXCEPT !.status = "pending"]
    /\ UNCHANGED <<contractTemplates, openBrowsers, renderVars, formVars, dbVars, requests>>

\* the mutation's onSuccess and onError: onContractCreated(newContract.id)
\* -> handleContractCreated -> setCurrentContractId after a create
MutationSettled ==
    /\ home.status = "pending"
    /\ home' = [home EXCEPT !.status = "idle",
                            !.currentContractId =
                                IF response.op = "create" /\ response.status = 201
                                THEN response.json.id ELSE @]
    /\ UNCHANGED <<storeVars, renderVars, formVars, dbVars, requests>>


---------------------------------------------------------------------------
(* Specifications.                                                         *)

\* MemStorage after its constructor
StoreInit ==
    /\ contractTemplates = MemSeededTemplates
    /\ contracts = [i \in {} |-> NoContract]
    /\ currentContractId = 1
    /\ clock = 0
    /\ response = Response("none", 0, NoBody, 0, NoContract, {}, <<>>)
    /\ openBrowsers = 0

RenderIdle ==
    /\ tplText = <<>>
    /\ data = <<>>
    /\ previewHtml = <<>>
    /\ pdfHtml = <<>>
    /\ rendered = {}

FormIdle ==
    /\ fieldList = FieldList("array", <<>>)
    /\ candidate = <<>>
    /\ validation = NotValidated
    /\ sections = NotGrouped
    /\ form = FormUnmounted

\* the database-backed store, the request queue and the page are not in use
OthersIdle ==
    /\ dbTemplates = <<>>
    /\ seeder = SeederDown
    /\ fetched = NotFetched
    /\ requests = <<>>
    /\ home = HomeIdle

Init == StoreInit /\ RenderIdle /\ FormIdle /\ OthersIdle

Next ==
    \/ \E body \in CreateBodies : PostContract(body)
    \/ \E id \in ContractIds, body \in UpdateBodies : PutContract(id, body)
    \/ \E id \in ContractIds : DeleteContract(id)
    \/ \E id \in ContractIds : GetContract(id)
    \/ \E id \in ContractIds : PostPdf(id)

Spec == Init /\ [][Next]_vars

\* the renderers on every drawn template text and data mapping
InitRender ==
    /\ StoreInit
    /\ tplText \in TemplateTexts
    /\ data \in DataObjects
    /\ previewHtml = <<>>
    /\ pdfHtml = <<>>
    /\ rendered = {}
    /\ FormIdle
    /\ OthersIdle

NextRender == RenderPreview \/ RenderPdf

SpecRender == InitRender /\ [][NextRender]_vars

\* the form on every drawn field list and candidate record
InitForm ==
    /\ StoreInit
    /\ RenderIdle
    /\ fieldList \in FieldLists
    /\ candidate \in Candidates
    /\ validation = NotValidated
    /\ sections = NotGrouped
    /\ form = FormUnmounted
    /\ OthersIdle

NextForm ==
    \/ ValidateCandidate
    \/ GroupTemplateFields
    \/ \E build \in {"tdz", "hoisted"} : RenderForm(build)
    \/ \E contractId \in FormContractIds : HandleSaveAsDraft(contractId)

SpecForm == InitForm /\ [][NextForm]_vars

---------------------------------------------------------------------------
(* Vocabulary of the properties.                                           *)

\* the length of a placeholder token {{<non-brace text>}} that starts at i, or 0
TokenLen(text, i) ==
    LET n == GenericMatchLen(text, i)
    IN  IF n > 0 /\ \A j \in (i + 2)..(i + n - 3) : text[j] # "{" THEN n ELSE 0

TokenId(text, i) == SubSeq(text, i + 2, i + TokenLen(text, i) - 3)

TokenStarts(text) == {i \in 1..Len(text) : TokenLen(text, i) > 0}

\* every brace of the text belongs to a placeholder token
WellFormed(text) ==
    \A p \in 1..Len(text) :
        text[p] \in {"{", "}"} =>
            \E i \in TokenStarts(text) : i <= p /\ p < i + TokenLen(text, i)

\* the text holds exactly tok at p
SpanIs(text, p, tok) ==
    p + Len(tok) - 1 <= Len(text) /\ SubSeq(text, p, p + Len(tok) - 1) = tok

Before(text, i) == SubSeq(text, 1, i - 1)
After(text, i)  == SubSeq(text, i + TokenLen(text, i), Len(text))

\* the entries of obj in every order
Orderings(obj) ==
    { [i \in 1..Len(obj) |-> obj[p[i]]] :
        p \in {q \in [1..Len(obj) -> 1..Len(obj)] :
                 \A i, j \in 1..Len(obj) : i # j => q[i] # q[j]} }

PreviewDone == "preview" \in rendered
PdfDone     == "pdf" \in rendered

---------------------------------------------------------------------------
(* Properties of the store (specification Spec).                           *)

\* C1: a partial update merges data per field-id: after an update carrying
\* data D' the contract's data maps each key of D' to its D' value and each
\* key of the old data D that D' lacks to its old value.
C1_UpdateMergesDataPerField ==
    [][\A id \in ContractIds, body \in UpdateBodies :
          (/\ PutContract(id, body)
           /\ id \in DOMAIN contracts
           /\ PartialSchemaAccepts(body)
           /\ "data" \in body.has)
          => LET D   == contracts[id].data
                 Dn  == body.data
                 now == contracts'[id].data
             IN  /\ \A k \in KeysOf(Dn) : HasKey(now, k) /\ Get(now, k) = Get(Dn, k)
                 /\ \A k \in KeysOf(D) \ KeysOf(Dn) :
                        HasKey(now, k) /\ Get(now, k) = Get(D, k)]_vars

\* C2: a create request whose data violates a rule derived from the fields
\* of the template it references is rejected with the offending field-ids
\* and persists no contract.
C2_CreateValidatesData ==
    (/\ response.op = "create"
     /\ {"templateId", "data"} \subseteq response.req.has
     /\ response.req.templateId \in DOMAIN contractTemplates
     /\ ~FormSchemaAccepts(contractTemplates[response.req.templateId].fields,
                           response.req.data))
    => /\ response.status = 400
       /\ FailingFields(contractTemplates[response.req.templateId].fields,
                        response.req.data) \subseteq response.errors
       /\ response.json = NoContract

\* the document body inside the styling wrapper of a PDF response
BodyOf(styled) == SubSeq(styled, 2, Len(styled) - 1)

CompanyNameId == <<"employer", ".", "companyName">>

\* C5: for a contract of the seeded employment template with every required
\* field filled, the render-to-document operation yields text with the
\* company name at the {{employer.companyName}} position and no {{...}}
\* token left.
C5_EmploymentRenderHasNoTokens ==
    (/\ response.op = "pdf"
     /\ response.status = 200
     /\ contracts[response.id].templateId = EmploymentId
     /\ FormSchemaAccepts(EmploymentFields, contracts[response.id].data))
    => LET body == BodyOf(response.html)
           name == String(Get(contracts[response.id].data, CompanyNameId))
           at   == Min(TokenStarts(EmploymentText))
       IN  /\ SpanIs(body, at, name)
           /\ \A i \in 1..Len(body) : GenericMatchLen(body, i) = 0

---------------------------------------------------------------------------
(* Properties of the renderers (specification SpecRender).                 *)

\* C3: the renderer is used identically for preview and for PDF source: the
\* preview body equals the body the PDF route hands on, for every template
\* text and data mapping.
C3_PreviewEqualsPdfSource ==
    (PreviewDone /\ PdfDone) => previewHtml = pdfHtml

\* C4: leftover-placeholder cleanup: the preview output holds no span
\* {{<non-brace text>}}, and in a template whose braces all belong to
\* placeholders every placeholder without a data entry appears as ___.
C4_LeftoverPlaceholderCleanup ==
    PreviewDone =>
        /\ TokenStarts(previewHtml) = {}
        /\ WellFormed(tplText) =>
             \A i \in TokenStarts(tplText) :
                 TokenId(tplText, i) \notin KeysOf(data) =>
                     previewHtml = RenderPreviewContent(Before(tplText, i), data)
                                   \o Sentinel
                                   \o RenderPreviewContent(After(tplText, i), data)

\* two distinct unresolved placeholders and a resolved one
C4_Witness ==
    /\ PreviewDone
    /\ tplText = Placeholder(<<"a", "X", "b">>) \o Placeholder(KeyA) \o Placeholder(KeyAB)
    /\ data = << <<KeyA, Str(<<"v">>)>> >>
    /\ previewHtml = Sentinel \o <<"v">> \o Sentinel

\* C6: a falsy value is not substituted: every {{field-id}} placeholder of a
\* key held with a falsy value comes out as ___, on the preview path and on
\* the PDF path, exactly as if the key were absent.
C6_FalsyRendersAsSentinel ==
    WellFormed(tplText) =>
        \A n \in 1..Len(data), i \in TokenStarts(tplText) :
            (~Truthy(data[n][2]) /\ TokenId(tplText, i) = data[n][1]) =>
                /\ PreviewDone =>
                     previewHtml = RenderPreviewContent(Before(tplText, i), data)
                                   \o Sentinel
                                   \o RenderPreviewContent(After(tplText, i), data)
                /\ PdfDone =>
                     pdfHtml = RenderPdfHtml(Before(tplText, i), data)
                               \o Sentinel
                               \o RenderPdfHtml(After(tplText, i), data)

\* C7: round trip with verbatim insertion: for a key f held with a non-empty,
\* non-zero value v (braces and dollars included) the output has exactly the
\* string form of v at every former {{f}} position and no {{f}} token.
C7_TruthyValueInsertedVerbatim ==
    (PreviewDone /\ WellFormed(tplText)) =>
        \A n \in 1..Len(data), i \in TokenStarts(tplText) :
            (Truthy(data[n][2]) /\ TokenId(tplText, i) = data[n][1]) =>
                /\ previewHtml = RenderPreviewContent(Before(tplText, i), data)
                                 \o String(data[n][2])
                                 \o RenderPreviewContent(After(tplText, i), data)
                /\ \A j \in TokenStarts(previewHtml) :
                       TokenId(previewHtml, j) # data[n][1]

\* C8: the iteration order over the data mapping does not affect the
\* rendered result: every permutation of the entries yields the same output.
C8_OrderIndependent ==
    /\ PreviewDone => \A obj \in Orderings(data) :
                          RenderPreviewContent(tplText, obj) = previewHtml
    /\ PdfDone => \A obj \in Orderings(data) :
                      RenderPdfHtml(tplText, obj) = pdfHtml

\* the places of a conditional marker pair in the text: <<i, j>> with
\* {{#if <id>}} at i and {{/if}} at j behind it
MarkerPairs(text) ==
    { ij \in TokenStarts(text) \X TokenStarts(text) :
        /\ ij[1] < ij[2]
        /\ TokenId(text, ij[1])[1] = "#if "
        /\ TokenId(text, ij[2]) = <<"/if">> }

\* C9: the conditional marker is not evaluated: ___ stands in place of
\* {{#if x}} and of {{/if}}, and the text between them is kept, its own
\* placeholders substituted as anywhere else, whatever the value of x.
C9_ConditionalMarkerNotEvaluated ==
    (PreviewDone /\ WellFormed(tplText)) =>
        \A ij \in MarkerPairs(tplText) :
            previewHtml =
                RenderPreviewContent(Before(tplText, ij[1]), data)
                \o Sentinel
                \o RenderPreviewContent(
                       SubSeq(tplText, ij[1] + TokenLen(tplText, ij[1]), ij[2] - 1), data)
                \o Sentinel
                \o RenderPreviewContent(After(tplText, ij[2]), data)

\* the condition field is falsy and the text between the markers is kept
C9_Witness ==
    /\ PreviewDone
    /\ tplText = IfOpen(KeyA) \o Placeholder(KeyAB) \o IfClose \o <<"x">>
    /\ data = << <<KeyA, Str(<<>>)>>, <<KeyAB, Str(<<"v">>)>> >>
    /\ previewHtml = Sentinel \o <<"v">> \o Sentinel \o <<"x">>

\* C10: substitution is exact-match: the step for a key k visits only spans
\* that are literally {{k}}, so a text without such a span is left as it is
\* (key a.b does not alter {{aXb}}, key a does not alter {{a.b}}).
C10_SubstitutionIsExactMatch ==
    /\ \A n \in 1..Len(data) :
         LET k   == data[n][1]
             pat == EscapeRegExp(Placeholder(k))
             hit == MatchesFrom(pat, tplText, 1)
         IN  /\ \A p \in hit : SpanIs(tplText, p, Placeholder(k))
             /\ (\A p \in 1..Len(tplText) : ~SpanIs(tplText, p, Placeholder(k)))
                => SubstituteKey(tplText, k, String(data[n][2])) = tplText
    /\ (PreviewDone /\ \A n \in 1..Len(data), p \in 1..Len(tplText) :
            ~SpanIs(tplText, p, Placeholder(data[n][1])))
       => previewHtml = SweepPlaceholders(tplText)

\* key a.b met {{aXb}} and {{a.b}}: only the latter was substituted
C10_Witness ==
    /\ PreviewDone
    /\ tplText = Placeholder(<<"a", "X", "b">>) \o <<"x">> \o Placeholder(KeyAB)
    /\ data = << <<KeyAB, Str(<<"v">>)>> >>
    /\ previewHtml = Sentinel \o <<"x", "v">>

---------------------------------------------------------------------------
(* Properties of the form (specification SpecForm).                        *)

\* the required fields of the template that the candidate lacks
LackedRequired ==
    {i \in 1..Len(fieldList.items) :
        fieldList.items[i].required /\ ~HasKey(candidate, fieldList.items[i].id)}

\* C11: the validator a submission is checked with is the one derived from
\* the selected template's field list: the form's schema is
\* createFormSchema of template.fields, and a submission that lacks a
\* required field of the template is rejected and issues no create or update
\* request.
C11_FormValidatesWithTemplateSchema ==
    /\ form.status \in {"ready", "invalid", "submitted"}
         => form.schema = CreateFormSchema(fieldList)
    /\ LackedRequired # {} => form.status # "submitted" /\ form.issued = NoRequest

\* a value that is empty for the required test
IsEmptyValue(v) == v \in {Str(<<>>), Null, Undef}

\* a value of the field's type that is not empty
IsWellTyped(field, v) ==
    IF field.type = "number" THEN v.t = "num" /\ v.n >= 0 ELSE v.t = "str" /\ v.s # <<>>

\* C12: required-field enforcement: for every required field, of any type, a
\* candidate in which the key is missing, empty string, null or undefined
\* fails validation and the failure names the field-id; with the key present,
\* non-empty and well-typed the field's rule passes.
C12_RequiredFieldEnforced ==
    (validation.ran /\ ~IsDegenerate(fieldList)) =>
        \A i \in 1..Len(fieldList.items) :
            LET f == fieldList.items[i]
            IN  f.required =>
                  /\ (~HasKey(candidate, f.id) \/ IsEmptyValue(Get(candidate, f.id)))
                       => ~validation.success /\ f.id \in validation.issues
                  /\ (HasKey(candidate, f.id) /\ IsWellTyped(f, Get(candidate, f.id)))
                       => f.id \notin validation.issues

\* a required field of each kind was lacked or held empty, and named
C12_Witness ==
    /\ validation.ran
    /\ fieldList.kind = "array"
    /\ Len(fieldList.items) = 2
    /\ fieldList.items[1].id = <<"employment", ".", "salary">>
    /\ fieldList.items[2].id = <<"employee", ".", "name">>
    /\ candidate = << <<fieldList.items[2].id, Null>> >>
    /\ validation.issues = {fieldList.items[1].id, fieldList.items[2].id}

\* a number or a non-empty decimal numeral
IsNumeral(v) == (v.t = "num" \/ (v.t = "str" /\ v.s # <<>>)) /\ ~ToNumber(v).nan

\* C13: numeric coercion: for a field of type number the validator accepts
\* every input that coerces to a number >= 0, the string "300000" included,
\* and rejects every input that coerces to a negative number, the string
\* "-5" included.
C13_NumberFieldCoerces ==
    (validation.ran /\ ~IsDegenerate(fieldList)) =>
        \A i \in 1..Len(fieldList.items) :
            LET f == fieldList.items[i]
            IN  (f.type = "number" /\ HasKey(candidate, f.id)
                   /\ IsNumeral(Get(candidate, f.id)))
                => (f.id \in validation.issues <=> ToNumber(Get(candidate, f.id)).n < 0)

\* C14: unknown keys are passed through: validating a candidate that holds
\* keys outside the template's field list succeeds when the known keys are
\* valid, and the validated record still holds those keys with their values.
C14_UnknownKeysPassThrough ==
    validation.ran =>
        LET schema  == CreateFormSchema(fieldList)
            known   == {schema[i].id : i \in 1..Len(schema)}
        IN  /\ validation.success <=> \A i \in 1..Len(schema) : FieldAccepts(schema[i], candidate)
            /\ validation.success =>
                 \A k \in KeysOf(candidate) \ known :
                     /\ HasKey(validation.output, k)
                     /\ Get(validation.output, k) = Get(candidate, k)

\* C15: a malformed field list degrades gracefully: for a field list that is
\* empty, no list or undefined the builder yields a validator, and that
\* validator accepts the empty submission.
C15_MalformedFieldListAccepted ==
    (validation.ran /\ IsDegenerate(fieldList) /\ candidate = <<>>) =>
        validation.success /\ validation.issues = {}

\* the empty submission was validated for a field list that is no list
C15_Witness ==
    /\ validation.ran
    /\ fieldList.kind = "object"
    /\ candidate = <<>>
    /\ validation.success

\* the places of a field in a group
PlacesIn(group, f) == {p \in 1..Len(group) : group[p] = f}

\* C16: sectioning is a partition: each field lands in exactly one of the
\* seven groups, the one of its prefix or "other" when no prefix test takes
\* it, and each group keeps the fields' relative order of the field list.
C16_SectioningIsPartition ==
    sections.status = "done" =>
        LET fs == TemplateFields(fieldList)
            g  == sections.groups
        IN  /\ Len(g) = Len(SectionNames) + 1
            /\ \A i \in 1..Len(fs) :
                 \E n \in 1..Len(g) :
                    /\ Cardinality(PlacesIn(g[n], fs[i])) = 1
                    /\ \A m \in 1..Len(g) : m # n => PlacesIn(g[m], fs[i]) = {}
                    /\ n <= Len(SectionNames) => StartsWith(fs[i].id, <<SectionNames[n], ".">>)
                    /\ n > Len(SectionNames) =>
                         \A m \in 1..Len(SectionNames) :
                             ~StartsWith(fs[i].id, <<SectionNames[m], ".">>)
            /\ \A n \in 1..Len(g) :
                 /\ \A p \in 1..Len(g[n]) : \E i \in 1..Len(fs) : fs[i] = g[n][p]
                 /\ \A i, j \in 1..Len(fs) :
                      (i < j /\ PlacesIn(g[n], fs[i]) # {} /\ PlacesIn(g[n], fs[j]) # {})
                      => \A p \in PlacesIn(g[n], fs[i]), q \in PlacesIn(g[n], fs[j]) : p < q

\* two employer fields, the optional one first, grouped in that order
C16_Witness ==
    /\ sections.status = "done"
    /\ Len(TemplateFields(fieldList)) = 2
    /\ fieldList.items[1].id = <<"employer", ".", "address">>
    /\ fieldList.items[2].id = <<"employer", ".", "companyName">>
    /\ sections.groups[1] = fieldList.items

---------------------------------------------------------------------------
(* Properties of the contract status and of delete (specification Spec).   *)

\* C17: a contract created without an explicit status has status draft.
C17_CreateDefaultsToDraft ==
    (response.op = "create" /\ response.status = 201 /\ "status" \notin response.req.has)
    => response.json.status = "draft"

\* C18: in every reachable state the status of every stored contract is
\* draft or completed.
C18_StatusIsDraftOrCompleted ==
    \A id \in DOMAIN contracts : contracts[id].status \in {"draft", "completed"}

\* C19: completed is terminal: no step takes a stored contract from status
\* completed to status draft.
C19_CompletedIsTerminal ==
    [][\A id \in DOMAIN contracts :
          (contracts[id].status = "completed" /\ id \in DOMAIN contracts')
          => contracts'[id].status # "draft"]_vars

\* the ids that were given out and are stored no longer
DeletedIds == (1..(currentContractId - 1)) \ DOMAIN contracts

\* C20: delete-then-fetch: the delete of a stored id answers success, removes
\* that contract and leaves every other contract as it was; the delete and
\* the fetch of an id deleted before answer not-found, and no step brings a
\* deleted id back.
C20_DeleteThenFetch ==
    [][\A id \in ContractIds :
          /\ (DeleteContract(id) /\ id \in DOMAIN contracts)
                => /\ response'.status = 204
                   /\ DOMAIN contracts' = DOMAIN contracts \ {id}
                   /\ \A j \in DOMAIN contracts' : contracts'[j] = contracts[j]
          /\ (DeleteContract(id) /\ id \in DeletedIds)
                => response'.status = 404 /\ contracts' = contracts
          /\ (GetContract(id) /\ id \in DeletedIds)
                => response'.status = 404 /\ response'.json = NoContract
          /\ id \in DeletedIds => id \notin DOMAIN contracts']_vars

\* a second delete of a deleted id was answered not-found while another
\* contract is still stored
C20_Witness ==
    /\ response.op = "delete"
    /\ response.status = 404
    /\ response.id \in DeletedIds
    /\ DOMAIN contracts # {}

\* the routes under a server that goes on answering requests
SpecLive == Init /\ [][Next]_vars /\ WF_vars(Next)

\* the database-backed store after its constructor, over an empty table
InitDb ==
    /\ StoreInit /\ RenderIdle /\ FormIdle
    /\ dbTemplates = <<>>
    /\ seeder = [pc |-> "check", next |-> 0, startups |-> 1]
    /\ fetched = NotFetched
    /\ requests = <<>>
    /\ home = HomeIdle

NextDb ==
    \/ Startup
    \/ SeedCheck
    \/ SeedInsert
    \/ Stop
    \/ GetTemplates

SpecDb == InitDb /\ [][NextDb]_vars

\* the page after its first render, under either build, over the seeded store
InitHome ==
    /\ StoreInit /\ RenderIdle /\ FormIdle
    /\ dbTemplates = <<>>
    /\ seeder = SeederDown
    /\ fetched = NotFetched
    /\ requests = <<>>
    /\ home \in {[HomeIdle EXCEPT !.build = b] : b \in Builds}

NextHome ==
    \/ \E templateId \in DOMAIN contractTemplates : HandleTemplateSelect(templateId)
    \/ \E d \in HomeData : HomeSave(d)
    \/ MutationSettled

SpecHome == InitHome /\ [][NextHome]_vars

\* the seeded store with a batch of requests received and none handled
InitConc ==
    /\ StoreInit /\ RenderIdle /\ FormIdle
    /\ dbTemplates = <<>>
    /\ seeder = SeederDown
    /\ fetched = NotFetched
    /\ requests \in RequestBatches
    /\ home = HomeIdle

NextConc ==
    \/ \E i \in 1..Len(requests) : Parse(i)
    \/ \E i \in 1..Len(requests) : CallStorage(i)
    \/ \E i \in 1..Len(requests) : Respond(i)

SpecConc == InitConc /\ [][NextConc]_vars

---------------------------------------------------------------------------
(* Properties of ids, the catalog, update, not-found and the rasterizer    *)
(* (specification Spec).                                                   *)

\* C22: every create returns a fresh id: the id is the counter's value, which
\* lies above every id given out before (stored or deleted since), and the
\* counter only grows, so ids are assigned in strictly increasing order.
C22_CreateReturnsFreshId ==
    [][/\ currentContractId' >= currentContractId
       /\ \A id \in DOMAIN contracts : id < currentContractId
       /\ \A body \in CreateBodies :
            (PostContract(body) /\ InsertSchemaAccepts(body))
            => /\ response'.json.id = currentContractId
               /\ response'.json.id \notin DOMAIN contracts
               /\ DOMAIN contracts' = DOMAIN contracts \cup {response'.json.id}
               /\ currentContractId' = currentContractId + 1]_vars

\* a create after a delete got the next id, not the deleted one
C22_Witness ==
    /\ response.op = "create"
    /\ response.status = 201
    /\ response.json.id = 2
    /\ 1 \in DeletedIds

\* the values of a sequence are pairwise distinct
Distinct(seq) == \A i, j \in 1..Len(seq) : i # j => seq[i] # seq[j]

\* C23: in the built-in catalog every template's field-ids are pairwise
\* distinct, and every select field has a non-empty options list whose
\* values are pairwise distinct (specification SpecDb: the rows seeded).
C23_CatalogFieldsWellFormed ==
    \A t \in 1..Len(dbTemplates) :
        LET fields == dbTemplates[t].fields
        IN  /\ Distinct([i \in 1..Len(fields) |-> fields[i].id])
            /\ \A i \in 1..Len(fields) :
                 fields[i].type = "select" =>
                     Len(fields[i].options) > 0 /\ Distinct(fields[i].options)

\* seeding ran to its end: the four templates are rows, and the employment
\* and the service template hold select fields of several options
C23_Witness ==
    /\ seeder.pc = "done"
    /\ Len(dbTemplates) = Len(BuiltInTemplates)
    /\ \A t \in {1, 2} :
         \E i \in 1..Len(dbTemplates[t].fields) :
            /\ dbTemplates[t].fields[i].type = "select"
            /\ Len(dbTemplates[t].fields[i].options) >= 2

\* C24: update frame: an update changes at most data, status, title and
\* updatedAt of the addressed contract: id, templateId and createdAt stay,
\* each of data, status and title the body omits keeps its value, and every
\* other contract is unchanged.
C24_UpdateFrame ==
    [][\A id \in ContractIds, body \in UpdateBodies :
          (PutContract(id, body) /\ id \in DOMAIN contracts)
          => /\ DOMAIN contracts' = DOMAIN contracts
             /\ contracts'[id].id = contracts[id].id
             /\ contracts'[id].templateId = contracts[id].templateId
             /\ contracts'[id].createdAt = contracts[id].createdAt
             /\ "data" \notin body.has => contracts'[id].data = contracts[id].data
             /\ "status" \notin body.has => contracts'[id].status = contracts[id].status
             /\ "title" \notin body.has => contracts'[id].title = contracts[id].title
             /\ \A j \in DOMAIN contracts \ {id} : contracts'[j] = contracts[j]]_vars

\* a step that answers not-found and leaves both collections as they were
AnswersNotFound ==
    /\ response'.status = 404
    /\ contracts' = contracts
    /\ contractTemplates' = contractTemplates
    /\ currentContractId' = currentContractId

\* render of a stored contract whose template is missing: not-found, no
\* document built, no browser launched
MissingTemplateDeclined ==
    \A id \in DOMAIN contracts :
        (contracts[id].templateId \notin DOMAIN contractTemplates /\ PostPdf(id))
        => AnswersNotFound /\ response'.html = <<>> /\ openBrowsers' = openBrowsers

\* C25: not-found leaves the state unchanged: fetch, update (whatever its
\* body), delete and render addressed to an id that is not stored answer
\* not-found, create no contract and leave contracts and templates as they
\* were; render of a stored contract whose templateId matches no template
\* answers not-found without invoking the rasterizer.
C25_NotFoundLeavesStateUnchanged ==
    [][/\ \A id \in ContractIds \ DOMAIN contracts :
            (\/ GetContract(id)
             \/ DeleteContract(id)
             \/ PostPdf(id)
             \/ \E body \in UpdateBodies : PutContract(id, body))
            => AnswersNotFound
       /\ MissingTemplateDeclined]_vars

\* C25, amended: as C25 for fetch, delete, render and for an update whose
\* body the partial schema accepts; an update whose body the schema rejects
\* is answered 400 before the id is looked up, and it too leaves contracts
\* and templates as they were.
C25_NotFoundForAcceptedBodies ==
    [][/\ \A id \in ContractIds \ DOMAIN contracts :
            /\ (\/ GetContract(id)
                \/ DeleteContract(id)
                \/ PostPdf(id)
                \/ \E body \in UpdateBodies :
                      PartialSchemaAccepts(body) /\ PutContract(id, body))
               => AnswersNotFound
            /\ \A body \in UpdateBodies :
                  (~PartialSchemaAccepts(body) /\ PutContract(id, body))
                  => /\ response'.status = 400
                     /\ contracts' = contracts
                     /\ contractTemplates' = contractTemplates
       /\ MissingTemplateDeclined]_vars

\* an update of an id that is not stored was answered not-found while a
\* contract of a missing template is stored
C25_Witness ==
    /\ response.op = "update"
    /\ response.status = 404
    /\ response.id \notin DOMAIN contracts
    /\ \E j \in DOMAIN contracts : contracts[j].templateId \notin DOMAIN contractTemplates

\* a failed render answers the generic failure, and no render changes the
\* stored contracts
FailedRenderLeavesContracts ==
    [][\A id \in ContractIds :
          PostPdf(id) => /\ contracts' = contracts
                         /\ response'.status \in {200, 404, 500}]_vars

\* C30: every browser the render-to-PDF operation launches is eventually
\* closed, also when setting the page content or generating the PDF fails
\* (specification SpecLive: the routes go on being served).
C30_BrowserEventuallyClosed ==
    (openBrowsers > 0) ~> (openBrowsers = 0)

---------------------------------------------------------------------------
(* Properties of the seeding (specification SpecDb).                       *)

\* C21: seeding is once-only and complete: whenever initializeTemplates has
\* returned, also after a startup that stopped partway through seeding and a
\* restart, the catalog holds exactly the four built-in templates, each once.
C21_SeedingOnceAndComplete ==
    seeder.pc = "done" => NamesOf(dbTemplates) = NamesOf(BuiltInTemplates)

\* C27: GET /api/templates never answers a non-empty proper subset of the
\* four-template catalog.
C27_NeverPartialCatalog ==
    fetched.ran => Len(fetched.names) \in {0, Len(BuiltInTemplates)}

---------------------------------------------------------------------------
(* Properties of the form's sections (specification SpecForm).             *)

\* C28: every field of the selected template is rendered as an input in
\* exactly one form section, for every template of the catalog.
C28_EveryFieldRenderedOnce ==
    (sections.status = "done" /\ fieldList \in CatalogFieldLists)
    => \A i \in 1..Len(fieldList.items) :
          Cardinality({j \in 1..Len(sections.inputs) :
                          sections.inputs[j] = fieldList.items[i]}) = 1

---------------------------------------------------------------------------
(* Properties of the Home page (specification SpecHome).                   *)

\* C29: whenever the page holds a current contract, that contract's
\* templateId is the selected template's id: selecting another template after
\* a create never leaves the form and the preview bound to a contract of a
\* different template.
C29_CurrentContractMatchesTemplate ==
    (home.currentContractId # 0 /\ home.currentContractId \in DOMAIN contracts)
    => contracts[home.currentContractId].templateId = home.selectedTemplateId

---------------------------------------------------------------------------
(* Properties of interleaved requests (specification SpecConc).            *)

\* the orders in which n requests can be served one after the other
Orders(n) == {p \in [1..n -> 1..n] : \A a, b \in 1..n : a # b => p[a] # p[b]}

\* the store after the requests the schema accepts were served alone, one
\* after the other, in the order p, from the k-th on
RECURSIVE SerialRun(_, _, _)
SerialRun(p, k, st) ==
    IF k > Len(requests) THEN st
    ELSE LET req == requests[p[k]]
         IN  SerialRun(p, k + 1, IF req.status = 400 THEN st ELSE Serve(st, req))

AllAnswered == \A i \in 1..Len(requests) : requests[i].phase = "answered"

\* C26: the storage operations are atomic under interleaving: once every
\* request of a batch is answered, the store equals the store some serial
\* order of the requests leaves; and an update racing with a delete of the
\* same contract never leaves the contract stored when the delete is ordered
\* last (it is the latest call of the store).
C26_InterleavingIsSerializable ==
    /\ AllAnswered =>
          \E p \in Orders(Len(requests)) :
              SerialRun(p, 1, StoreState([i \in {} |-> NoContract], 1, 0))
                  = StoreState(contracts, currentContractId, clock)
    /\ \A u, d \in 1..Len(requests) :
          (/\ requests[u].op = "update" /\ requests[d].op = "delete"
           /\ requests[u].id = requests[d].id
           /\ requests[u].seq > 0
           /\ requests[d].seq > requests[u].seq
           /\ requests[d].seq = Served)
          => requests[d].id \notin DOMAIN contracts

\* a create, an update and a delete received together were served in this
\* order: the update found the contract, the delete came last and removed it
C26_Witness ==
    /\ AllAnswered
    /\ \E c, u, d \in 1..Len(requests) :
          /\ requests[c].op = "create" /\ requests[c].status = 201
          /\ requests[u].op = "update" /\ requests[u].status = 200
          /\ requests[d].op = "delete" /\ requests[d].status = 204
          /\ requests[c].seq < requests[u].seq
          /\ requests[u].seq < requests[d].seq
    /\ contracts = [i \in {} |-> NoContract]

=============================================================================
